---- MODULE Spec2Model ----
(***************************************************************************)
(* Model of ibc-grpc-server: the Path/Identifier types (src/types.rs), the *)
(* IbcStore trait (src/lib.rs) and the gRPC query handlers of the client,  *)
(* connection and channel services (src/service.rs).                       *)
(*                                                                         *)
(* Strings are sequences of one-character strings, so that validation,     *)
(* splitting on '/', joining and decimal parsing are computed, not assumed.*)
(***************************************************************************)
EXTENDS Integers, Sequences, FiniteSets, TLC

VARIABLES adapter, store, req, resp

vars == <<adapter, store, req, resp>>

(***************************************************************************)
(* Characters and string helpers                                           *)
(***************************************************************************)
Digits == <<"0", "1", "2", "3", "4", "5", "6", "7", "8", "9">>

DigitSet == {Digits[i] : i \in 1..Len(Digits)}

Letters ==
  {"a", "b", "c", "d", "e", "f", "g", "h", "i", "j", "k", "l", "m",
   "n", "o", "p", "q", "r", "s", "t", "u", "v", "w", "x", "y", "z",
   "A", "B", "C", "D", "E", "F", "G", "H", "I", "J", "K", "L", "M",
   "N", "O", "P", "Q", "R", "S", "T", "U", "V", "W", "X", "Y", "Z"}

\* char::is_alphanumeric, on the ASCII characters the model uses
is_alphanumeric(c) == c \in Letters \/ c \in DigitSet

\* ibc::core::ics24_host::validate::VALID_SPECIAL_CHARS = "._+-#[]<>"
VALID_SPECIAL_CHARS == {".", "_", "+", "-", "#", "[", "]", "<", ">"}

PATH_SEPARATOR == "/"

\* str::contains(char)
Contains(s, c) == \E i \in 1..Len(s) : s[i] = c

\* str::split(sep) that drops the empty parts
RECURSIVE Split_nonempty(_, _)
Split_nonempty(s, sep) ==
  IF ~Contains(s, sep) THEN (IF Len(s) = 0 THEN <<>> ELSE <<s>>)
  ELSE LET i == CHOOSE k \in 1..Len(s) :
                  s[k] = sep /\ \A j \in 1..(k - 1) : s[j] # sep
       IN (IF i = 1 THEN <<>> ELSE <<SubSeq(s, 1, i - 1)>>)
          \o Split_nonempty(SubSeq(s, i + 1, Len(s)), sep)

\* str::split(sep): never returns an empty list
RECURSIVE Split(_, _)
Split(s, sep) ==
  IF ~Contains(s, sep) THEN <<s>>
  ELSE LET i == CHOOSE k \in 1..Len(s) :
                  s[k] = sep /\ \A j \in 1..(k - 1) : s[j] # sep
       IN <<SubSeq(s, 1, i - 1)>> \o Split(SubSeq(s, i + 1, Len(s)), sep)

\* [String]::join(sep)
RECURSIVE Join(_, _)
Join(parts, sep) ==
  IF Len(parts) = 0 THEN <<>>
  ELSE IF Len(parts) = 1 THEN parts[1]
  ELSE parts[1] \o <<sep>> \o Join(Tail(parts), sep)

\* Iterator::map(f).collect()
MapSeq(f(_), s) == [i \in 1..Len(s) |-> f(s[i])]

DigitValue(c) == (CHOOSE i \in 1..Len(Digits) : Digits[i] = c) - 1

\* u64::to_string: decimal, no sign, no leading zeros
RECURSIVE u64_to_string(_)
u64_to_string(n) ==
  IF n < 10 THEN <<Digits[n + 1]>>
  ELSE u64_to_string(n \div 10) \o <<Digits[(n % 10) + 1]>>

RECURSIVE DigitsValue(_, _)
DigitsValue(s, acc) ==
  IF Len(s) = 0 THEN acc
  ELSE DigitsValue(Tail(s), acc * 10 + DigitValue(s[1]))

\* u64::from_str: an optional leading '+', then one or more decimal digits
\* (leading zeros accepted).  -1 stands for Err.  Numbers of the model have
\* fewer than ten digits, far below the overflow of u64, which is therefore
\* rendered as the rejection of anything longer.
u64_from_str(s) ==
  LET body == IF Len(s) > 0 /\ s[1] = "+" THEN Tail(s) ELSE s
  IN IF Len(body) = 0 \/ \E i \in 1..Len(body) : body[i] \notin DigitSet
       THEN -1
     ELSE IF Len(body) > Len(Digits) - 1 THEN -1
     ELSE DigitsValue(body, 0)

(***************************************************************************)
(* Identifier validation (ibc crate, as called from src/types.rs and       *)
(* src/service.rs)                                                         *)
(***************************************************************************)
\* validate_identifier(id, min, max): "Ok" or the ValidationError kind
validate_identifier(id, min, max) ==
  IF Len(id) = 0 THEN "Empty"
  ELSE IF Contains(id, PATH_SEPARATOR) THEN "ContainSeparator"
  ELSE IF Len(id) < min \/ Len(id) > max THEN "InvalidLength"
  ELSE IF \E i \in 1..Len(id) :
            ~(is_alphanumeric(id[i]) \/ id[i] \in VALID_SPECIAL_CHARS)
    THEN "InvalidCharacter"
  ELSE "Ok"

\* Identifier::validate with the length limits of a port id
Identifier_validate_bounded(s) == validate_identifier(s, 2, 128)

\* Identifier::validate: min 0 and max s.len(), so no length is rejected
Identifier_validate(s) == validate_identifier(s, 0, Len(s))

\* ConnectionId::from_str / PortId::from_str / ChannelId::from_str /
\* ClientId::from_str: TRUE iff Ok
ConnectionId_from_str(s) == validate_identifier(s, 10, 64) = "Ok"

PortId_from_str(s) == validate_identifier(s, 2, 128) = "Ok"

ChannelId_from_str(s) == validate_identifier(s, 8, 64) = "Ok"

ClientId_from_str(s) == validate_identifier(s, 9, 64) = "Ok"

(***************************************************************************)
(* Path: Vec<Identifier>                                                   *)
(***************************************************************************)
\* TryFrom<String> for Path: TRUE iff every '/'-separated part is a valid
\* Identifier
Path_try_from_ok(s) ==
  \A i \in 1..Len(Split(s, PATH_SEPARATOR)) :
     Identifier_validate(Split(s, PATH_SEPARATOR)[i]) = "Ok"

\* TryFrom<String> for Path on an accepted string: the list of identifiers
Path_try_from(s) == Split(s, PATH_SEPARATOR)

\* Display for Path with a separator after every identifier
Path_to_string_trailing(p) == Join(p, PATH_SEPARATOR) \o <<PATH_SEPARATOR>>

\* Display for Path
Path_to_string(p) == Join(p, PATH_SEPARATOR)

\* KeyPrefix::from(&Path) closing the prefix with a separator
KeyPrefix_from_closed(p) == Join(p, PATH_SEPARATOR) \o <<PATH_SEPARATOR>>

\* KeyPrefix::from(&Path)
KeyPrefix_from(p) == Join(MapSeq(LAMBDA x : x, p), PATH_SEPARATOR)

\* [u8]::starts_with
bytes_starts_with(s, prefix) ==
  Len(prefix) <= Len(s) /\ SubSeq(s, 1, Len(prefix)) = prefix

\* Path::starts_with on whole identifiers
starts_with_identifiers(self, prefix) ==
  Len(prefix) <= Len(self) /\ SubSeq(self, 1, Len(prefix)) = prefix

\* Path::starts_with
starts_with(self, prefix) ==
  bytes_starts_with(KeyPrefix_from(self), KeyPrefix_from(prefix))

(***************************************************************************)
(* String literals of the namespace (src/service.rs and the ibc crate's    *)
(* path grammar)                                                           *)
(***************************************************************************)
str_clients == <<"c", "l", "i", "e", "n", "t", "s">>

str_clientState == <<"c", "l", "i", "e", "n", "t", "S", "t", "a", "t", "e">>

str_clientType == <<"c", "l", "i", "e", "n", "t", "T", "y", "p", "e">>

str_consensusStates ==
  <<"c", "o", "n", "s", "e", "n", "s", "u", "s", "S", "t", "a", "t", "e", "s">>

str_connections == <<"c", "o", "n", "n", "e", "c", "t", "i", "o", "n", "s">>

str_channelEnds == <<"c", "h", "a", "n", "n", "e", "l", "E", "n", "d", "s">>

str_ports == <<"p", "o", "r", "t", "s">>

str_channels == <<"c", "h", "a", "n", "n", "e", "l", "s">>

str_sequences == <<"s", "e", "q", "u", "e", "n", "c", "e", "s">>

str_commitments == <<"c", "o", "m", "m", "i", "t", "m", "e", "n", "t", "s">>

str_acks == <<"a", "c", "k", "s">>

str_receipts == <<"r", "e", "c", "e", "i", "p", "t", "s">>

str_nextSequenceSend ==
  <<"n", "e", "x", "t", "S", "e", "q", "u", "e", "n", "c", "e", "S", "e", "n", "d">>

str_nextSequenceRecv ==
  <<"n", "e", "x", "t", "S", "e", "q", "u", "e", "n", "c", "e", "R", "e", "c", "v">>

str_nextSequenceAck ==
  <<"n", "e", "x", "t", "S", "e", "q", "u", "e", "n", "c", "e", "A", "c", "k">>

(***************************************************************************)
(* Typed domain paths (ibc::core::ics24_host::path) and the codec          *)
(***************************************************************************)
ParseFailure == [variant |-> "ParseFailure"]

\* parse_client_paths
parse_client_paths(c) ==
  IF Len(c) < 2 \/ c[1] # str_clients \/ ~ClientId_from_str(c[2])
    THEN ParseFailure
  ELSE IF Len(c) = 3 THEN
    IF c[3] = str_clientType
      THEN [variant |-> "ClientType", client_id |-> c[2]]
    ELSE IF c[3] = str_clientState
      THEN [variant |-> "ClientState", client_id |-> c[2]]
    ELSE IF c[3] = str_connections
      THEN [variant |-> "ClientConnections", client_id |-> c[2]]
    ELSE ParseFailure
  ELSE IF Len(c) = 4 THEN
    LET eh == Split(c[4], "-")
    IN IF c[3] # str_consensusStates \/ Len(eh) # 2 THEN ParseFailure
       ELSE IF u64_from_str(eh[1]) < 0 \/ u64_from_str(eh[2]) < 0
         THEN ParseFailure
       ELSE [variant |-> "ClientConsensusState", client_id |-> c[2],
             epoch |-> u64_from_str(eh[1]), height |-> u64_from_str(eh[2])]
  ELSE ParseFailure

\* parse_connections
parse_connections(c) ==
  IF Len(c) = 2 /\ c[1] = str_connections /\ ConnectionId_from_str(c[2])
    THEN [variant |-> "Connections", connection_id |-> c[2]]
  ELSE ParseFailure

\* parse_ports, parse_channels and parse_sequences on a two-component slice
parse_ports_ok(c) == Len(c) = 2 /\ c[1] = str_ports /\ PortId_from_str(c[2])

parse_channels_ok(c) ==
  Len(c) = 2 /\ c[1] = str_channels /\ ChannelId_from_str(c[2])

parse_sequences_ok(c) ==
  Len(c) = 2 /\ c[1] = str_sequences /\ u64_from_str(c[2]) >= 0

\* parse_channel_ends
parse_channel_ends(c) ==
  IF Len(c) = 5 /\ c[1] = str_channelEnds
     /\ parse_ports_ok(SubSeq(c, 2, 3)) /\ parse_channels_ok(SubSeq(c, 4, 5))
    THEN [variant |-> "ChannelEnds", port_id |-> c[3], channel_id |-> c[5]]
  ELSE ParseFailure

\* parse_seqs that takes every next-sequence path for a send path
parse_seqs_send(c) ==
  IF Len(c) = 5 /\ parse_ports_ok(SubSeq(c, 2, 3))
     /\ parse_channels_ok(SubSeq(c, 4, 5))
     /\ c[1] \in {str_nextSequenceSend, str_nextSequenceRecv, str_nextSequenceAck}
    THEN [variant |-> "SeqSends", port_id |-> c[3], channel_id |-> c[5]]
  ELSE ParseFailure

\* parse_seqs
parse_seqs(c) ==
  IF Len(c) = 5 /\ parse_ports_ok(SubSeq(c, 2, 3))
     /\ parse_channels_ok(SubSeq(c, 4, 5))
     /\ c[1] \in {str_nextSequenceSend, str_nextSequenceRecv, str_nextSequenceAck}
    THEN [variant |-> IF c[1] = str_nextSequenceSend THEN "SeqSends"
                      ELSE IF c[1] = str_nextSequenceRecv THEN "SeqRecvs"
                      ELSE "SeqAcks",
          port_id |-> c[3], channel_id |-> c[5]]
  ELSE ParseFailure

\* parse_commitments, parse_acks, parse_receipts
parse_packet_paths(c) ==
  IF Len(c) = 7 /\ c[1] \in {str_commitments, str_acks, str_receipts}
     /\ parse_ports_ok(SubSeq(c, 2, 3)) /\ parse_channels_ok(SubSeq(c, 4, 5))
     /\ parse_sequences_ok(SubSeq(c, 6, 7))
    THEN [variant |-> IF c[1] = str_commitments THEN "Commitments"
                      ELSE IF c[1] = str_acks THEN "Acks"
                      ELSE "Receipts",
          port_id |-> c[3], channel_id |-> c[5],
          sequence |-> u64_from_str(c[7])]
  ELSE ParseFailure

\* IbcPath::from_str: the first grammar that matches
IbcPath_from_str(s) ==
  LET c == Split(s, PATH_SEPARATOR)
  IN IF parse_client_paths(c).variant # "ParseFailure"
       THEN parse_client_paths(c)
     ELSE IF parse_connections(c).variant # "ParseFailure"
       THEN parse_connections(c)
     ELSE IF parse_channel_ends(c).variant # "ParseFailure"
       THEN parse_channel_ends(c)
     ELSE IF parse_seqs(c).variant # "ParseFailure" THEN parse_seqs(c)
     ELSE parse_packet_paths(c)

\* TryFrom<Path> for IbcPath
IbcPath_try_from(path) == IbcPath_from_str(Path_to_string(path))

\* Display for the typed paths
IbcPath_to_string(p) ==
  IF p.variant = "ClientType"
    THEN Join(<<str_clients, p.client_id, str_clientType>>, PATH_SEPARATOR)
  ELSE IF p.variant = "ClientState"
    THEN Join(<<str_clients, p.client_id, str_clientState>>, PATH_SEPARATOR)
  ELSE IF p.variant = "ClientConnections"
    THEN Join(<<str_clients, p.client_id, str_connections>>, PATH_SEPARATOR)
  ELSE IF p.variant = "ClientConsensusState"
    THEN Join(<<str_clients, p.client_id, str_consensusStates,
                u64_to_string(p.epoch) \o <<"-">> \o u64_to_string(p.height)>>,
              PATH_SEPARATOR)
  ELSE IF p.variant = "Connections"
    THEN Join(<<str_connections, p.connection_id>>, PATH_SEPARATOR)
  ELSE IF p.variant \in {"ChannelEnds", "SeqSends", "SeqRecvs", "SeqAcks"}
    THEN Join(<<IF p.variant = "ChannelEnds" THEN str_channelEnds
                ELSE IF p.variant = "SeqSends" THEN str_nextSequenceSend
                ELSE IF p.variant = "SeqRecvs" THEN str_nextSequenceRecv
                ELSE str_nextSequenceAck,
                str_ports, p.port_id, str_channels, p.channel_id>>,
              PATH_SEPARATOR)
  ELSE Join(<<IF p.variant = "Commitments" THEN str_commitments
              ELSE IF p.variant = "Acks" THEN str_acks
              ELSE str_receipts,
              str_ports, p.port_id, str_channels, p.channel_id,
              str_sequences, u64_to_string(p.sequence)>>,
            PATH_SEPARATOR)

\* impl_into_path_for!: From<typed path> for Path
Path_from(ibc_path) == Path_try_from(IbcPath_to_string(ibc_path))

(***************************************************************************)
(* The identifiers, sequences and values the model draws from              *)
(***************************************************************************)
conn0 == <<"c", "o", "n", "n", "e", "c", "t", "i", "o", "n", "-", "0">>

conn1 == <<"c", "o", "n", "n", "e", "c", "t", "i", "o", "n", "-", "1">>

transfer == <<"t", "r", "a", "n", "s", "f", "e", "r">>

chan0 == <<"c", "h", "a", "n", "n", "e", "l", "-", "0">>

chan1 == <<"c", "h", "a", "n", "n", "e", "l", "-", "1">>

client0 ==
  <<"0", "7", "-", "t", "e", "n", "d", "e", "r", "m", "i", "n", "t", "-", "0">>

\* request strings that are no identifiers: empty, with a separator, with a
\* space, and too short for any of the four id kinds
BadIds == {<<>>, <<"a", "/", "b">>, <<"b", "a", "d", " ", "i", "d", "-", "0", "0", "0">>, <<"x">>}

ConnIds == {conn0, conn1}

ChanIds == {chan0, chan1}

Seqs == {1, 2}

\* Result<Option<T>>: Ok(Some(v)), Ok(None) and Err
Some(v) == [ok |-> TRUE, val |-> <<v>>]

None == [ok |-> TRUE, val |-> <<>>]

Err == [ok |-> FALSE, val |-> <<>>]

is_some(r) == r.ok /\ Len(r.val) = 1

is_none(r) == r.ok /\ Len(r.val) = 0

\* the values a record of each kind may hold
ConnectionEnds == {[client_id |-> client0]}

ChannelEnds ==
  {[connection_hops |-> h] : h \in {<<>>, <<conn0>>, <<conn1>>, <<conn1, conn0>>}}

\* PacketCommitment / AcknowledgementCommitment: bytes, possibly none
CommitmentValues == {<<>>, <<1>>}

Results(values) == {None, Err} \cup {Some(v) : v \in values}

\* the keys of the typed lookups
ChannelKeys == {<<transfer, c>> : c \in ChanIds}

PacketKeys == {<<transfer, chan0, s>> : s \in Seqs}

ConsensusKey == <<client0, 0, 1>>

\* paths a prefix scan may hand back, well-formed or not
connection_path(c) == Path_from([variant |-> "Connections", connection_id |-> c])

channel_end_path(k) ==
  Path_from([variant |-> "ChannelEnds", port_id |-> k[1], channel_id |-> k[2]])

commitment_path(k) ==
  Path_from([variant |-> "Commitments", port_id |-> k[1], channel_id |-> k[2],
             sequence |-> k[3]])

ack_path(k) ==
  Path_from([variant |-> "Acks", port_id |-> k[1], channel_id |-> k[2],
             sequence |-> k[3]])

client_state_path == Path_from([variant |-> "ClientState", client_id |-> client0])

consensus_state_path ==
  Path_from([variant |-> "ClientConsensusState", client_id |-> ConsensusKey[1],
             epoch |-> ConsensusKey[2], height |-> ConsensusKey[3]])

\* the adapters of the services: the store handle of IbcClientService, the
\* connection_end/connection_ids adapters of IbcConnectionService, and the
\* channel_end adapter, the packet_commitment and packet_receipt adapters and
\* the packet_ack adapter of IbcChannelService
Adapters == {"client", "connection", "channel_end", "packet", "packet_ack"}

\* the keys that can be in the index of the store behind an adapter
StorePaths(a) ==
  IF a = "client"
    THEN {client_state_path, consensus_state_path,
          <<str_clients, client0, str_consensusStates, <<"x">>>>}
  ELSE IF a = "connection"
    THEN {connection_path(c) : c \in ConnIds} \cup {<<str_connections, <<"x">>>>}
  ELSE IF a = "channel_end"
    THEN {channel_end_path(k) : k \in ChannelKeys}
         \cup {<<str_channelEnds, str_ports, transfer>>}
  ELSE IF a = "packet"
    THEN {commitment_path(k) : k \in PacketKeys}
         \cup {<<str_commitments, str_ports, transfer, str_channels, chan0>>}
  ELSE {ack_path(k) : k \in PacketKeys}
       \cup {<<str_acks, str_ports, transfer, str_channels, chan0>>}

(***************************************************************************)
(* IbcStore (src/lib.rs): the store is known to the services only through  *)
(* the results of its read methods                                         *)
(***************************************************************************)
Tag(r) == IF ~r.ok THEN "Err" ELSE IF Len(r.val) = 0 THEN "None" ELSE "Some"

\* the tag of a Result<Vec<T>>
TagVec(r) == IF r.ok THEN "Ok" ELSE "Err"

Call(op, key, res) == [op |-> op, key |-> key, res |-> res]

get_client_state(st, path) ==
  IF path.client_id = client0 THEN st.client_state ELSE None

get_consensus_state(st, path) ==
  IF <<path.client_id, path.epoch, path.height>> = ConsensusKey
    THEN st.consensus_state ELSE None

get_connection_end(st, path) ==
  IF path.connection_id \in ConnIds
    THEN st.connection_ends[path.connection_id] ELSE None

\* Result<Vec<ConnectionId>>: val is the vector itself
get_connection_ids(st, path) ==
  IF path.client_id = client0 THEN st.connection_ids
  ELSE [ok |-> TRUE, val |-> <<>>]

get_acknowledgement_commitment(st, path) ==
  IF <<path.port_id, path.channel_id, path.sequence>> \in PacketKeys
    THEN st.acks[<<path.port_id, path.channel_id, path.sequence>>] ELSE None

get_channel_end(st, path) ==
  IF <<path.port_id, path.channel_id>> \in ChannelKeys
    THEN st.channel_ends[<<path.port_id, path.channel_id>>] ELSE None

get_opt(st, path) ==
  IF <<path.port_id, path.channel_id, path.sequence>> \in PacketKeys
    THEN st.receipts[<<path.port_id, path.channel_id, path.sequence>>] ELSE None

get_packet_commitment(st, path) ==
  IF <<path.port_id, path.channel_id, path.sequence>> \in PacketKeys
    THEN st.commitments[<<path.port_id, path.channel_id, path.sequence>>]
  ELSE None

\* Result<Vec<Path>>: val is the vector itself, in the store's order
get_paths_by_prefix(st, key_prefix) ==
  IF st.scan_ok
    THEN [ok |-> TRUE,
          val |-> SelectSeq(st.paths, LAMBDA p : starts_with(p, key_prefix))]
  ELSE [ok |-> FALSE, val |-> <<>>]

current_height(st) == st.height

(***************************************************************************)
(* Responses: Ok(Response), Err(Status) or a panic of the handler's task.  *)
(* ops is the list of store calls the handler made, in order.              *)
(***************************************************************************)
CHAIN_REVISION_NUMBER == 0

Ok(body, ops) == [kind |-> "Ok", code |-> "Ok", body |-> body, ops |-> ops]

Status(code, ops) == [kind |-> "Err", code |-> code, body |-> <<>>, ops |-> ops]

Panic(msg, ops) == [kind |-> "Panic", code |-> msg, body |-> <<>>, ops |-> ops]

\* Some(Height { revision_number, revision_height })
HeightStamp(st) ==
  <<[revision_number |-> CHAIN_REVISION_NUMBER,
     revision_height |-> current_height(st)]>>

HeightCall == Call("current_height", <<>>, "Ok")

(***************************************************************************)
(* IbcClientService (src/service.rs)                                       *)
(***************************************************************************)
\* the loop of client_states over the scanned keys that decode to a
\* ClientState path (filter_map drops the others)
RECURSIVE client_states_loop(_, _, _, _)
client_states_loop(st, keys, client_states, ops) ==
  IF Len(keys) = 0
    THEN Ok([client_states |-> client_states, pagination |-> <<>>], ops)
  ELSE LET path == IbcPath_try_from(keys[1])
       IN IF path.variant # "ClientState"
            THEN client_states_loop(st, Tail(keys), client_states, ops)
          ELSE LET r == get_client_state(st, path)
                   ops1 == Append(ops, Call("get_client_state", keys[1], Tag(r)))
               IN IF ~r.ok THEN Status("DataLoss", ops1)
                  ELSE client_states_loop(st, Tail(keys),
                         Append(client_states,
                                [client_id |-> path.client_id,
                                 client_state |-> <<>>]),
                         ops1)

client_states(st, request) ==
  LET path == Path_try_from(str_clients)
      keys == get_paths_by_prefix(st, path)
      ops == <<Call("get_paths_by_prefix", path, TagVec(keys))>>
  IN IF ~Path_try_from_ok(str_clients) THEN Status("InvalidArgument", <<>>)
     ELSE IF ~keys.ok THEN Status("Internal", ops)
     ELSE client_states_loop(st, keys.val, <<>>, ops)

\* consensus_states leaving out the keys of another shape
RECURSIVE consensus_states_loop_skipping(_, _, _, _)
consensus_states_loop_skipping(st, keys, consensus_states, ops) ==
  IF Len(keys) = 0
    THEN Ok([consensus_states |-> consensus_states, pagination |-> <<>>], ops)
  ELSE LET path == IbcPath_try_from(keys[1])
       IN IF path.variant # "ClientConsensusState"
            THEN consensus_states_loop_skipping(st, Tail(keys), consensus_states, ops)
          ELSE LET r == get_consensus_state(st, path)
                   ops1 == Append(ops, Call("get_consensus_state", keys[1], Tag(r)))
               IN IF ~r.ok THEN Status("DataLoss", ops1)
                  ELSE consensus_states_loop_skipping(st, Tail(keys),
                         Append(consensus_states,
                                [height |-> <<[revision_number |-> path.epoch,
                                               revision_height |-> path.height]>>,
                                 consensus_state |-> <<>>]),
                         ops1)

RECURSIVE consensus_states_loop(_, _, _, _)
consensus_states_loop(st, keys, consensus_states, ops) ==
  IF Len(keys) = 0
    THEN Ok([consensus_states |-> consensus_states, pagination |-> <<>>], ops)
  ELSE LET path == IbcPath_try_from(keys[1])
       IN IF path.variant # "ClientConsensusState"
            THEN Panic("unexpected path", ops)
          ELSE LET r == get_consensus_state(st, path)
                   ops1 == Append(ops, Call("get_consensus_state", keys[1], Tag(r)))
               IN IF ~r.ok THEN Status("DataLoss", ops1)
                  ELSE consensus_states_loop(st, Tail(keys),
                         Append(consensus_states,
                                [height |-> <<[revision_number |-> path.epoch,
                                               revision_height |-> path.height]>>,
                                 consensus_state |-> <<>>]),
                         ops1)

consensus_states(st, request) ==
  LET s == str_clients \o <<PATH_SEPARATOR>> \o request.client_id
             \o <<PATH_SEPARATOR>> \o str_consensusStates
      path == Path_try_from(s)
      keys == get_paths_by_prefix(st, path)
      ops == <<Call("get_paths_by_prefix", path, TagVec(keys))>>
  IN IF ~Path_try_from_ok(s) THEN Status("InvalidArgument", <<>>)
     ELSE IF ~keys.ok THEN Status("Internal", ops)
     ELSE consensus_states_loop(st, keys.val, <<>>, ops)

(***************************************************************************)
(* IbcConnectionService (src/service.rs)                                   *)
(***************************************************************************)
\* connection reporting an absent record as a not-found error
connection_not_found(st, request) ==
  IF ~ConnectionId_from_str(request.connection_id)
    THEN Status("InvalidArgument", <<>>)
  ELSE LET path == [variant |-> "Connections",
                    connection_id |-> request.connection_id]
           conn == get_connection_end(st, path)
           ops == <<Call("get_connection_end", Path_from(path), Tag(conn))>>
       IN IF ~conn.ok THEN Status("DataLoss", ops)
          ELSE IF is_none(conn) THEN Status("NotFound", ops)
          ELSE Ok([connection |-> conn.val, proof |-> <<>>,
                   proof_height |-> <<>>], ops)

connection(st, request) ==
  IF ~ConnectionId_from_str(request.connection_id)
    THEN Status("InvalidArgument", <<>>)
  ELSE LET path == [variant |-> "Connections",
                    connection_id |-> request.connection_id]
           conn == get_connection_end(st, path)
           ops == <<Call("get_connection_end", Path_from(path), Tag(conn))>>
       IN IF ~conn.ok THEN Status("DataLoss", ops)
          ELSE Ok([connection |-> conn.val, proof |-> <<>>,
                   proof_height |-> <<>>], ops)

\* connections leaving out what it cannot resolve: a key of another shape
\* and a key whose record is absent are skipped
RECURSIVE connections_loop_skipping(_, _, _, _)
connections_loop_skipping(st, connection_paths, identified_connections, ops) ==
  IF Len(connection_paths) = 0
    THEN Ok([connections |-> identified_connections, pagination |-> <<>>,
             height |-> <<>>], ops)
  ELSE LET path == IbcPath_try_from(connection_paths[1])
       IN IF path.variant # "Connections"
            THEN connections_loop_skipping(st, Tail(connection_paths),
                                           identified_connections, ops)
          ELSE LET connection_end == get_connection_end(st, path)
                   ops1 == Append(ops, Call("get_connection_end",
                                            connection_paths[1],
                                            Tag(connection_end)))
               IN IF ~connection_end.ok THEN Status("DataLoss", ops1)
                  ELSE IF is_none(connection_end)
                    THEN connections_loop_skipping(st, Tail(connection_paths),
                                                   identified_connections, ops1)
                  ELSE connections_loop_skipping(st, Tail(connection_paths),
                         Append(identified_connections,
                                [id |-> path.connection_id,
                                 connection_end |-> connection_end.val[1]]),
                         ops1)

\* connections putting each new entry in front of the list
RECURSIVE connections_loop_prepending(_, _, _, _)
connections_loop_prepending(st, connection_paths, identified_connections, ops) ==
  IF Len(connection_paths) = 0
    THEN Ok([connections |-> identified_connections, pagination |-> <<>>,
             height |-> <<>>], ops)
  ELSE LET path == IbcPath_try_from(connection_paths[1])
       IN IF path.variant # "Connections" THEN Panic("unexpected path", ops)
          ELSE LET connection_end == get_connection_end(st, path)
                   ops1 == Append(ops, Call("get_connection_end",
                                            connection_paths[1],
                                            Tag(connection_end)))
               IN IF ~connection_end.ok THEN Status("DataLoss", ops1)
                  ELSE IF is_none(connection_end)
                    THEN Panic("unwrap on None", ops1)
                  ELSE connections_loop_prepending(st, Tail(connection_paths),
                         <<[id |-> path.connection_id,
                            connection_end |-> connection_end.val[1]]>>
                         \o identified_connections,
                         ops1)

RECURSIVE connections_loop(_, _, _, _)
connections_loop(st, connection_paths, identified_connections, ops) ==
  IF Len(connection_paths) = 0
    THEN Ok([connections |-> identified_connections, pagination |-> <<>>,
             height |-> <<>>], ops)
  ELSE LET path == IbcPath_try_from(connection_paths[1])
       IN IF path.variant # "Connections" THEN Panic("unexpected path", ops)
          ELSE LET connection_end == get_connection_end(st, path)
                   ops1 == Append(ops, Call("get_connection_end",
                                            connection_paths[1],
                                            Tag(connection_end)))
               IN IF ~connection_end.ok THEN Status("DataLoss", ops1)
                  ELSE IF is_none(connection_end)
                    THEN Panic("unwrap on None", ops1)
                  ELSE connections_loop(st, Tail(connection_paths),
                         Append(identified_connections,
                                [id |-> path.connection_id,
                                 connection_end |-> connection_end.val[1]]),
                         ops1)

connections(st, request) ==
  LET connection_path_prefix == Path_try_from(str_connections)
      connection_paths == get_paths_by_prefix(st, connection_path_prefix)
      ops == <<Call("get_paths_by_prefix", connection_path_prefix,
                    TagVec(connection_paths))>>
  IN IF ~Path_try_from_ok(str_connections)
       THEN Panic("'connections' expected to be a valid Path", <<>>)
     ELSE IF ~connection_paths.ok THEN Status("Internal", ops)
     ELSE connections_loop(st, connection_paths.val, <<>>, ops)

client_connections(st, request) ==
  IF ~ClientId_from_str(request.client_id) THEN Status("InvalidArgument", <<>>)
  ELSE LET path == [variant |-> "ClientConnections",
                    client_id |-> request.client_id]
           r == get_connection_ids(st, path)
           ops == <<Call("get_connection_ids", Path_from(path), TagVec(r))>>
           \* unwrap_or_default: an Err becomes the empty vector
           connection_ids == IF r.ok THEN r.val ELSE <<>>
       IN Ok([connection_paths |-> connection_ids, proof |-> <<>>,
              proof_height |-> <<>>], ops)

(***************************************************************************)
(* IbcChannelService (src/service.rs)                                      *)
(***************************************************************************)
\* channel validating the channel id only after the store was read
channel_late_validation(st, request) ==
  IF ~PortId_from_str(request.port_id) THEN Status("InvalidArgument", <<>>)
  ELSE LET path == [variant |-> "ChannelEnds", port_id |-> request.port_id,
                    channel_id |-> request.channel_id]
           channel_opt == get_channel_end(st, path)
           ops == <<Call("get_channel_end", <<>>, Tag(channel_opt))>>
       IN IF ~channel_opt.ok THEN Status("DataLoss", ops)
          ELSE IF ~ChannelId_from_str(request.channel_id)
            THEN Status("InvalidArgument", ops)
          ELSE Ok([channel |-> channel_opt.val, proof |-> <<>>,
                   proof_height |-> <<>>], ops)

channel(st, request) ==
  IF ~PortId_from_str(request.port_id) THEN Status("InvalidArgument", <<>>)
  ELSE IF ~ChannelId_from_str(request.channel_id)
    THEN Status("InvalidArgument", <<>>)
  ELSE LET path == [variant |-> "ChannelEnds", port_id |-> request.port_id,
                    channel_id |-> request.channel_id]
           channel_opt == get_channel_end(st, path)
           ops == <<Call("get_channel_end", Path_from(path), Tag(channel_opt))>>
       IN IF ~channel_opt.ok THEN Status("DataLoss", ops)
          ELSE Ok([channel |-> channel_opt.val, proof |-> <<>>,
                   proof_height |-> <<>>], ops)

IdentifiedChannelEnd(port_id, channel_id, channel_end) ==
  [port_id |-> port_id, channel_id |-> channel_id, channel_end |-> channel_end]

RECURSIVE channels_loop(_, _, _, _)
channels_loop(st, channel_paths, identified_channels, ops) ==
  IF Len(channel_paths) = 0
    THEN Ok([channels |-> identified_channels, pagination |-> <<>>,
             height |-> HeightStamp(st)], Append(ops, HeightCall))
  ELSE LET path == IbcPath_try_from(channel_paths[1])
       IN IF path.variant # "ChannelEnds" THEN Panic("unexpected path", ops)
          ELSE LET channel_end == get_channel_end(st, path)
                   ops1 == Append(ops, Call("get_channel_end", channel_paths[1],
                                            Tag(channel_end)))
               IN IF ~channel_end.ok THEN Status("DataLoss", ops1)
                  ELSE IF is_none(channel_end)
                    THEN Panic("channel path returned by get_keys() had no associated channel",
                               ops1)
                  ELSE channels_loop(st, Tail(channel_paths),
                         Append(identified_channels,
                                IdentifiedChannelEnd(path.port_id, path.channel_id,
                                                     channel_end.val[1])),
                         ops1)

channels(st, request) ==
  LET channel_path_prefix ==
        Path_try_from(str_channelEnds \o <<PATH_SEPARATOR>> \o str_ports)
      channel_paths == get_paths_by_prefix(st, channel_path_prefix)
      ops == <<Call("get_paths_by_prefix", channel_path_prefix,
                    TagVec(channel_paths))>>
  IN IF ~Path_try_from_ok(str_channelEnds \o <<PATH_SEPARATOR>> \o str_ports)
       THEN Panic("'channelEnds/ports' expected to be a valid Path", <<>>)
     ELSE IF ~channel_paths.ok THEN Status("Internal", ops)
     ELSE channels_loop(st, channel_paths.val, <<>>, ops)

\* connection_channels comparing the last hop instead of the first
last(v) == IF Len(v) = 0 THEN <<>> ELSE <<v[Len(v)]>>

\* Vec::first(): Option<&T>
first(v) == IF Len(v) = 0 THEN <<>> ELSE <<v[1]>>

RECURSIVE connection_channels_loop(_, _, _, _, _)
connection_channels_loop(st, conn_id, keys, identified_channels, ops) ==
  IF Len(keys) = 0
    THEN Ok([channels |-> identified_channels, pagination |-> <<>>,
             height |-> HeightStamp(st)], Append(ops, HeightCall))
  ELSE LET path == IbcPath_try_from(keys[1])
       IN IF path.variant # "ChannelEnds"
            THEN connection_channels_loop(st, conn_id, Tail(keys),
                                          identified_channels, ops)
          ELSE LET r == get_channel_end(st, path)
                   ops1 == Append(ops, Call("get_channel_end", keys[1], Tag(r)))
               IN IF ~r.ok THEN Status("DataLoss", ops1)
                  ELSE IF is_some(r) /\ first(r.val[1].connection_hops) = <<conn_id>>
                    THEN connection_channels_loop(st, conn_id, Tail(keys),
                           Append(identified_channels,
                                  IdentifiedChannelEnd(path.port_id,
                                                       path.channel_id, r.val[1])),
                           ops1)
                  ELSE connection_channels_loop(st, conn_id, Tail(keys),
                                                identified_channels, ops1)

connection_channels(st, request) ==
  IF ~ConnectionId_from_str(request.connection)
    THEN Status("InvalidArgument", <<>>)
  ELSE LET path == Path_try_from(str_channelEnds)
           keys == get_paths_by_prefix(st, path)
           ops == <<Call("get_paths_by_prefix", path, TagVec(keys))>>
       IN IF ~Path_try_from_ok(str_channelEnds)
            THEN Panic("'commitments/ports' expected to be a valid Path", <<>>)
          ELSE IF ~keys.ok THEN Status("Internal", ops)
          ELSE connection_channels_loop(st, request.connection, keys.val,
                                        <<>>, ops)

PacketState(path, data) ==
  [port_id |-> path.port_id, channel_id |-> path.channel_id,
   sequence |-> path.sequence, data |-> data]

\* matching_commitment_paths / matching_ack_paths
matching_paths(variant, port_id, channel_id, path) ==
  /\ IbcPath_try_from(path).variant = variant
  /\ IbcPath_try_from(path).port_id = port_id
  /\ IbcPath_try_from(path).channel_id = channel_id

RECURSIVE packet_commitments_loop(_, _, _, _)
packet_commitments_loop(st, commitment_paths, packet_states, ops) ==
  IF Len(commitment_paths) = 0
    THEN Ok([commitments |-> packet_states, pagination |-> <<>>,
             height |-> HeightStamp(st)], Append(ops, HeightCall))
  ELSE LET path == IbcPath_try_from(commitment_paths[1])
           commitment == get_packet_commitment(st, path)
           ops1 == Append(ops, Call("get_packet_commitment",
                                    commitment_paths[1], Tag(commitment)))
       IN IF ~commitment.ok THEN Status("DataLoss", ops1)
          ELSE IF is_none(commitment) THEN Panic("unwrap on None", ops1)
          ELSE packet_commitments_loop(st, Tail(commitment_paths),
                 IF Len(commitment.val[1]) # 0
                   THEN Append(packet_states, PacketState(path, commitment.val[1]))
                 ELSE packet_states,
                 ops1)

packet_commitments(st, request) ==
  IF ~PortId_from_str(request.port_id) THEN Status("InvalidArgument", <<>>)
  ELSE IF ~ChannelId_from_str(request.channel_id)
    THEN Status("InvalidArgument", <<>>)
  ELSE LET prefix == Path_try_from(str_commitments \o <<PATH_SEPARATOR>> \o str_ports)
           commitment_paths == get_paths_by_prefix(st, prefix)
           ops == <<Call("get_paths_by_prefix", prefix, TagVec(commitment_paths))>>
       IN IF ~Path_try_from_ok(str_commitments \o <<PATH_SEPARATOR>> \o str_ports)
            THEN Panic("'commitments/ports' expected to be a valid Path", <<>>)
          ELSE IF ~commitment_paths.ok THEN Status("Internal", ops)
          ELSE packet_commitments_loop(st,
                 SelectSeq(commitment_paths.val,
                           LAMBDA p : matching_paths("Commitments", request.port_id,
                                                     request.channel_id, p)),
                 <<>>, ops)

RECURSIVE packet_acknowledgements_loop(_, _, _, _)
packet_acknowledgements_loop(st, ack_paths, packet_states, ops) ==
  IF Len(ack_paths) = 0
    THEN Ok([acknowledgements |-> packet_states, pagination |-> <<>>,
             height |-> HeightStamp(st)], Append(ops, HeightCall))
  ELSE LET path == IbcPath_try_from(ack_paths[1])
           commitment == get_acknowledgement_commitment(st, path)
           ops1 == Append(ops, Call("get_acknowledgement_commitment",
                                    ack_paths[1], Tag(commitment)))
       IN IF ~commitment.ok THEN Status("DataLoss", ops1)
          ELSE packet_acknowledgements_loop(st, Tail(ack_paths),
                 IF is_some(commitment) /\ Len(commitment.val[1]) # 0
                   THEN Append(packet_states, PacketState(path, commitment.val[1]))
                 ELSE packet_states,
                 ops1)

packet_acknowledgements(st, request) ==
  IF ~PortId_from_str(request.port_id) THEN Status("InvalidArgument", <<>>)
  ELSE IF ~ChannelId_from_str(request.channel_id)
    THEN Status("InvalidArgument", <<>>)
  ELSE LET prefix == Path_try_from(str_acks \o <<PATH_SEPARATOR>> \o str_ports)
           ack_paths == get_paths_by_prefix(st, prefix)
           ops == <<Call("get_paths_by_prefix", prefix, TagVec(ack_paths))>>
       IN IF ~Path_try_from_ok(str_acks \o <<PATH_SEPARATOR>> \o str_ports)
            THEN Panic("'acks/ports' expected to be a valid Path", <<>>)
          ELSE IF ~ack_paths.ok THEN Status("Internal", ops)
          ELSE packet_acknowledgements_loop(st,
                 SelectSeq(ack_paths.val,
                           LAMBDA p : matching_paths("Acks", request.port_id,
                                                     request.channel_id, p)),
                 <<>>, ops)

\* Result::ok(): Result<Option<T>> to Option<Option<T>>, then flatten()
ok_flatten(r) == IF r.ok THEN r.val ELSE <<>>

ReceiptsPath(port_id, channel_id, seq) ==
  [variant |-> "Receipts", port_id |-> port_id, channel_id |-> channel_id,
   sequence |-> seq]

CommitmentsPath(port_id, channel_id, seq) ==
  [variant |-> "Commitments", port_id |-> port_id, channel_id |-> channel_id,
   sequence |-> seq]

\* unreceived_packets reading the commitments path instead of the receipts path
receipt_is_none_commitments(st, port_id, channel_id, seq) ==
  Len(ok_flatten(get_packet_commitment(st,
        CommitmentsPath(port_id, channel_id, seq)))) = 0

\* the closure of unreceived_packets' filter
receipt_is_none(st, port_id, channel_id, seq) ==
  Len(ok_flatten(get_opt(st, ReceiptsPath(port_id, channel_id, seq)))) = 0

\* unreceived_acks with the test inverted
commitment_is_some_inverted(st, port_id, channel_id, seq) ==
  Len(ok_flatten(get_packet_commitment(st,
        CommitmentsPath(port_id, channel_id, seq)))) = 0

\* the closure of unreceived_acks' filter
commitment_is_some(st, port_id, channel_id, seq) ==
  Len(ok_flatten(get_packet_commitment(st,
        CommitmentsPath(port_id, channel_id, seq)))) = 1

unreceived_packets(st, request) ==
  IF ~PortId_from_str(request.port_id) THEN Status("InvalidArgument", <<>>)
  ELSE IF ~ChannelId_from_str(request.channel_id)
    THEN Status("InvalidArgument", <<>>)
  ELSE LET sequences_to_check == request.packet_commitment_sequences
           unreceived_sequences ==
             SelectSeq(sequences_to_check,
                       LAMBDA seq : receipt_is_none(st, request.port_id,
                                                    request.channel_id, seq))
           ops == [i \in 1..Len(sequences_to_check) |->
                     Call("get_opt",
                          Path_from(ReceiptsPath(request.port_id, request.channel_id,
                                                 sequences_to_check[i])),
                          Tag(get_opt(st, ReceiptsPath(request.port_id,
                                                       request.channel_id,
                                                       sequences_to_check[i]))))]
       IN Ok([sequences |-> unreceived_sequences, height |-> HeightStamp(st)],
             Append(ops, HeightCall))

unreceived_acks(st, request) ==
  IF ~PortId_from_str(request.port_id) THEN Status("InvalidArgument", <<>>)
  ELSE IF ~ChannelId_from_str(request.channel_id)
    THEN Status("InvalidArgument", <<>>)
  ELSE LET sequences_to_check == request.packet_ack_sequences
           unreceived_sequences ==
             SelectSeq(sequences_to_check,
                       LAMBDA seq : commitment_is_some(st, request.port_id,
                                                       request.channel_id, seq))
           ops == [i \in 1..Len(sequences_to_check) |->
                     Call("get_packet_commitment",
                          Path_from(CommitmentsPath(request.port_id,
                                                    request.channel_id,
                                                    sequences_to_check[i])),
                          Tag(get_packet_commitment(st,
                                CommitmentsPath(request.port_id, request.channel_id,
                                                sequences_to_check[i]))))]
       IN Ok([sequences |-> unreceived_sequences, height |-> HeightStamp(st)],
             Append(ops, HeightCall))

(***************************************************************************)
(* State machine: the store changes under its owner (a block is committed  *)
(* and the height advances); the services answer one request at a time.    *)
(***************************************************************************)
MaxHeight == 3

MaxSeqs == 2

EmptyStore ==
  [connection_ends |-> [c \in ConnIds |-> None],
   channel_ends |-> [k \in ChannelKeys |-> None],
   receipts |-> [k \in PacketKeys |-> None],
   commitments |-> [k \in PacketKeys |-> None],
   acks |-> [k \in PacketKeys |-> None],
   client_state |-> None,
   consensus_state |-> None,
   connection_ids |-> [ok |-> TRUE, val |-> <<>>],
   paths |-> <<>>,
   scan_ok |-> TRUE,
   height |-> 0]

NoRequest == [handler |-> "none"]

NoResponse == [kind |-> "None", code |-> "None", body |-> <<>>, ops |-> <<>>]

Init ==
  /\ adapter \in Adapters
  /\ store = EmptyStore
  /\ req = NoRequest
  /\ resp = NoResponse

InIndex(paths, p) == \E i \in 1..Len(paths) : paths[i] = p

\* the index after a record is stored under key p: p is listed once, new
\* keys after the keys already there
Indexed(paths, p) == IF InIndex(paths, p) THEN paths ELSE Append(paths, p)

\* the index after the record under key p is removed
Unindexed(paths, p) == SelectSeq(paths, LAMBDA q : q # p)

\* a committed block: one record of the store behind adapter a changes, the
\* index follows, and the height advances
Commit(a, field, value, paths) ==
  /\ adapter = a
  /\ req = NoRequest
  /\ store.height < MaxHeight
  /\ store' = [store EXCEPT ![field] = value, !.paths = paths, !.height = @ + 1]
  /\ UNCHANGED <<adapter, req, resp>>

\* what a write leaves under a key: a value, or a record whose read fails
Written(values) == {Err} \cup {Some(v) : v \in values}

PutConnectionEnd ==
  \E c \in ConnIds, r \in Written(ConnectionEnds) :
     Commit("connection", "connection_ends", [store.connection_ends EXCEPT ![c] = r],
            Indexed(store.paths, connection_path(c)))

DeleteConnectionEnd ==
  \E c \in ConnIds :
     Commit("connection", "connection_ends", [store.connection_ends EXCEPT ![c] = None],
            Unindexed(store.paths, connection_path(c)))

PutChannelEnd ==
  \E k \in ChannelKeys, r \in Written(ChannelEnds) :
     Commit("channel_end", "channel_ends", [store.channel_ends EXCEPT ![k] = r],
            Indexed(store.paths, channel_end_path(k)))

DeleteChannelEnd ==
  \E k \in ChannelKeys :
     Commit("channel_end", "channel_ends", [store.channel_ends EXCEPT ![k] = None],
            Unindexed(store.paths, channel_end_path(k)))

\* receipts are never scanned: their keys are left out of the index
PutReceipt ==
  \E k \in PacketKeys, r \in Written({<<>>}) :
     Commit("packet", "receipts", [store.receipts EXCEPT ![k] = r], store.paths)

PutCommitment ==
  \E k \in PacketKeys, r \in Written(CommitmentValues) :
     Commit("packet", "commitments", [store.commitments EXCEPT ![k] = r],
            Indexed(store.paths, commitment_path(k)))

\* the store deletes a packet commitment when its acknowledgement arrives
DeleteCommitment ==
  \E k \in PacketKeys :
     Commit("packet", "commitments", [store.commitments EXCEPT ![k] = None],
            Unindexed(store.paths, commitment_path(k)))

PutAck ==
  \E k \in PacketKeys, r \in Written(CommitmentValues) :
     Commit("packet_ack", "acks", [store.acks EXCEPT ![k] = r],
            Indexed(store.paths, ack_path(k)))

PutClientState ==
  \E r \in Written({<<>>}) :
     Commit("client", "client_state", r, Indexed(store.paths, client_state_path))

PutConsensusState ==
  \E r \in Written({<<>>}) :
     Commit("client", "consensus_state", r, Indexed(store.paths, consensus_state_path))

PutConnectionIds ==
  \E r \in {[ok |-> FALSE, val |-> <<>>], [ok |-> TRUE, val |-> <<conn0>>],
            [ok |-> TRUE, val |-> <<conn1, conn0>>]} :
     Commit("connection", "connection_ids", r, store.paths)

\* a key enters the index with no change to the records: a key of another
\* shape under the same prefix, or an index entry whose record is missing
InsertPath ==
  \E p \in StorePaths(adapter) :
     /\ ~InIndex(store.paths, p)
     /\ Commit(adapter, "paths", Append(store.paths, p), Append(store.paths, p))

\* prefix scans start to fail
FailScan == Commit(adapter, "scan_ok", FALSE, store.paths)

Write ==
  \/ PutConnectionEnd
  \/ DeleteConnectionEnd
  \/ PutChannelEnd
  \/ DeleteChannelEnd
  \/ PutReceipt
  \/ PutCommitment
  \/ DeleteCommitment
  \/ PutAck
  \/ PutClientState
  \/ PutConsensusState
  \/ PutConnectionIds
  \/ InsertPath
  \/ FailScan

\* requests
RequestIds(valid) == valid \cup BadIds

PortChannelPairs ==
  {<<transfer, c>> : c \in ChanIds}
  \cup {<<b, chan0>> : b \in BadIds}
  \cup {<<transfer, b>> : b \in BadIds}

RECURSIVE SeqsUpTo(_, _)
SeqsUpTo(S, n) ==
  IF n = 0 THEN {<<>>}
  ELSE SeqsUpTo(S, n - 1)
       \cup {Append(s, x) : s \in {t \in SeqsUpTo(S, n - 1) : Len(t) = n - 1}, x \in S}

\* the sequence lists of a request: any list for well-formed ids, one list
\* for malformed ids
SequenceLists(pc) ==
  IF pc[1] = transfer /\ pc[2] \in ChanIds THEN SeqsUpTo(Seqs, MaxSeqs)
  ELSE {<<1>>}

\* a service whose queries advance the store's height
Answer_advancing(a, request, response) ==
  /\ adapter = a
  /\ req = NoRequest
  /\ req' = request
  /\ resp' = response
  /\ store' = [store EXCEPT !.height = IF @ < MaxHeight THEN @ + 1 ELSE @]
  /\ UNCHANGED adapter

\* the service takes a request and computes its response
Answer(a, request, response) ==
  /\ adapter = a
  /\ req = NoRequest
  /\ req' = request
  /\ resp' = response
  /\ UNCHANGED <<adapter, store>>

\* the response is sent; the service keeps nothing of the call
Return ==
  /\ req # NoRequest
  /\ req' = NoRequest
  /\ resp' = NoResponse
  /\ UNCHANGED <<adapter, store>>

ClientStates ==
  Answer("client", [handler |-> "client_states"],
         client_states(store, [handler |-> "client_states"]))

ConsensusStates ==
  \E id \in RequestIds({client0}) :
     LET request == [handler |-> "consensus_states", client_id |-> id]
     IN Answer("client", request, consensus_states(store, request))

Connection ==
  \E id \in RequestIds(ConnIds) :
     LET request == [handler |-> "connection", connection_id |-> id]
     IN Answer("connection", request, connection(store, request))

Connections ==
  Answer("connection", [handler |-> "connections"],
         connections(store, [handler |-> "connections"]))

ClientConnections ==
  \E id \in RequestIds({client0}) :
     LET request == [handler |-> "client_connections", client_id |-> id]
     IN Answer("connection", request, client_connections(store, request))

Channel ==
  \E pc \in PortChannelPairs :
     LET request == [handler |-> "channel", port_id |-> pc[1], channel_id |-> pc[2]]
     IN Answer("channel_end", request, channel(store, request))

Channels ==
  Answer("channel_end", [handler |-> "channels"], channels(store, [handler |-> "channels"]))

ConnectionChannels ==
  \E id \in RequestIds(ConnIds) :
     LET request == [handler |-> "connection_channels", connection |-> id]
     IN Answer("channel_end", request, connection_channels(store, request))

PacketCommitments ==
  \E pc \in PortChannelPairs :
     LET request == [handler |-> "packet_commitments", port_id |-> pc[1],
                     channel_id |-> pc[2]]
     IN Answer("packet", request, packet_commitments(store, request))

PacketAcknowledgements ==
  \E pc \in PortChannelPairs :
     LET request == [handler |-> "packet_acknowledgements", port_id |-> pc[1],
                     channel_id |-> pc[2]]
     IN Answer("packet_ack", request, packet_acknowledgements(store, request))

UnreceivedPackets ==
  \E pc \in PortChannelPairs :
     \E seqs \in SequenceLists(pc) :
        LET request == [handler |-> "unreceived_packets", port_id |-> pc[1],
                        channel_id |-> pc[2],
                        packet_commitment_sequences |-> seqs]
        IN Answer("packet", request, unreceived_packets(store, request))

UnreceivedAcks ==
  \E pc \in PortChannelPairs :
     \E seqs \in SequenceLists(pc) :
        LET request == [handler |-> "unreceived_acks", port_id |-> pc[1],
                        channel_id |-> pc[2], packet_ack_sequences |-> seqs]
        IN Answer("packet", request, unreceived_acks(store, request))

Next ==
  \/ Write
  \/ ClientStates
  \/ ConsensusStates
  \/ Connection
  \/ Connections
  \/ ClientConnections
  \/ Channel
  \/ Channels
  \/ ConnectionChannels
  \/ PacketCommitments
  \/ PacketAcknowledgements
  \/ UnreceivedPackets
  \/ UnreceivedAcks
  \/ Return

Spec == Init /\ [][Next]_vars

(***************************************************************************)
(* Properties                                                              *)
(***************************************************************************)
Range(s) == {s[i] : i \in 1..Len(s)}

ValidPortChannel(request) ==
  PortId_from_str(request.port_id) /\ ChannelId_from_str(request.channel_id)

\* the store hands out a receipt (a commitment) for the packet: the read
\* succeeds and yields a value
HoldsReceipt(st, port_id, channel_id, seq) ==
  is_some(get_opt(st, ReceiptsPath(port_id, channel_id, seq)))

HoldsCommitment(st, port_id, channel_id, seq) ==
  is_some(get_packet_commitment(st, CommitmentsPath(port_id, channel_id, seq)))

AllCommitments == [PacketKeys -> Results(CommitmentValues)]

\* C1: unreceived_packets with a valid port and channel id returns a requested
\* sequence s if and only if the store holds no receipt at the receipts path
\* (port, channel, s); and the response is the same whatever commitments the
\* store holds.
C1_UnreceivedPackets ==
  (req.handler = "unreceived_packets" /\ ValidPortChannel(req)) =>
     /\ resp.kind = "Ok"
     /\ Range(resp.body.sequences) \subseteq Range(req.packet_commitment_sequences)
     /\ \A s \in Range(req.packet_commitment_sequences) :
           s \in Range(resp.body.sequences)
             <=> ~HoldsReceipt(store, req.port_id, req.channel_id, s)
     /\ \A c \in AllCommitments :
           unreceived_packets([store EXCEPT !.commitments = c], req).body
             = resp.body

\* the scenario of the specification: commitments exist for every sequence,
\* a receipt exists for sequence 2 only, and the query for <<1, 2>> returns <<1>>
C1_Witness ==
  /\ req.handler = "unreceived_packets"
  /\ req.port_id = transfer /\ req.channel_id = chan0
  /\ req.packet_commitment_sequences = <<1, 2>>
  /\ \A s \in Seqs : HoldsCommitment(store, transfer, chan0, s)
  /\ HoldsReceipt(store, transfer, chan0, 2)
  /\ ~HoldsReceipt(store, transfer, chan0, 1)
  /\ resp.kind = "Ok" /\ resp.body.sequences = <<1>>

\* C2: unreceived_acks with a valid port and channel id returns a requested
\* sequence s if and only if the store still holds a packet commitment at the
\* commitments path (port, channel, s); a sequence whose commitment is gone
\* is never returned.
C2_UnreceivedAcks ==
  (req.handler = "unreceived_acks" /\ ValidPortChannel(req)) =>
     /\ resp.kind = "Ok"
     /\ Range(resp.body.sequences) \subseteq Range(req.packet_ack_sequences)
     /\ \A s \in Range(req.packet_ack_sequences) :
           s \in Range(resp.body.sequences)
             <=> HoldsCommitment(store, req.port_id, req.channel_id, s)
     /\ \A s \in Range(req.packet_ack_sequences) :
           is_none(get_packet_commitment(store,
                     CommitmentsPath(req.port_id, req.channel_id, s)))
             => s \notin Range(resp.body.sequences)

\* the commitment of sequence 1 has been deleted, that of sequence 2 is still
\* there, and the query for <<1, 2>> returns <<2>>
C2_Witness ==
  /\ req.handler = "unreceived_acks"
  /\ req.port_id = transfer /\ req.channel_id = chan0
  /\ req.packet_ack_sequences = <<1, 2>>
  /\ store.height >= 3
  /\ is_none(store.commitments[<<transfer, chan0, 1>>])
  /\ is_some(store.commitments[<<transfer, chan0, 2>>])
  /\ resp.kind = "Ok" /\ resp.body.sequences = <<2>>

\* the store read of request.port_id/channel_id/seq fails
ReceiptReadFails(st, request, seq) ==
  ~get_opt(st, ReceiptsPath(request.port_id, request.channel_id, seq)).ok

CommitmentReadFails(st, request, seq) ==
  ~get_packet_commitment(st, CommitmentsPath(request.port_id, request.channel_id,
                                             seq)).ok

\* C3: in unreceived_packets and in unreceived_acks, a requested sequence whose
\* store read returns an error is left out of the returned list, and the query
\* still succeeds.
C3_ErrorExcludes ==
  /\ (req.handler = "unreceived_packets" /\ ValidPortChannel(req)) =>
        /\ resp.kind = "Ok"
        /\ \A s \in Range(req.packet_commitment_sequences) :
              ReceiptReadFails(store, req, s) => s \notin Range(resp.body.sequences)
  /\ (req.handler = "unreceived_acks" /\ ValidPortChannel(req)) =>
        /\ resp.kind = "Ok"
        /\ \A s \in Range(req.packet_ack_sequences) :
              CommitmentReadFails(store, req, s) => s \notin Range(resp.body.sequences)

\* what a prefix scan of the store hands back for the prefix string s
Scanned(st, s) == get_paths_by_prefix(st, Path_try_from(s)).val

Decodes(path, variant) == IbcPath_try_from(path).variant = variant

\* the channel end the store holds under a scanned channel-end path
ChannelEndAt(st, path) == get_channel_end(st, IbcPath_try_from(path))

\* a scanned channel-end path whose record is there and whose first
\* connection hop is conn_id
FirstHopIs(st, path, conn_id) ==
  /\ Decodes(path, "ChannelEnds")
  /\ is_some(ChannelEndAt(st, path))
  /\ Len(ChannelEndAt(st, path).val[1].connection_hops) > 0
  /\ ChannelEndAt(st, path).val[1].connection_hops[1] = conn_id

\* C4: connection_channels for a valid connection id X answers, whenever the
\* scan and the lookups of the scanned channel ends succeed, with exactly the
\* channel ends under the channel-ends namespace whose first connection hop
\* is X, in the order of the scan; channel ends with no hop or another first
\* hop are left out.
C4_ConnectionChannels ==
  (req.handler = "connection_channels" /\ ConnectionId_from_str(req.connection)) =>
     LET scanned == Scanned(store, str_channelEnds)
         kept == SelectSeq(scanned, LAMBDA p : FirstHopIs(store, p, req.connection))
     IN /\ resp.kind = "Ok"
             <=> /\ store.scan_ok
                 /\ \A i \in 1..Len(scanned) :
                       Decodes(scanned[i], "ChannelEnds") => ChannelEndAt(store, scanned[i]).ok
        /\ resp.kind = "Ok" =>
             /\ Len(resp.body.channels) = Len(kept)
             /\ \A i \in 1..Len(kept) :
                   /\ resp.body.channels[i].port_id = IbcPath_try_from(kept[i]).port_id
                   /\ resp.body.channels[i].channel_id
                        = IbcPath_try_from(kept[i]).channel_id
                   /\ resp.body.channels[i].channel_end = ChannelEndAt(store, kept[i]).val[1]
                   /\ resp.body.channels[i].channel_end.connection_hops[1] = req.connection

\* the scenario of the specification, with a second hop on one channel: the
\* store holds two channel ends with different first hops and the query for
\* the first hop of one returns exactly that one
C4_Witness ==
  /\ req.handler = "connection_channels" /\ req.connection = conn0
  /\ is_some(store.channel_ends[<<transfer, chan0>>])
  /\ is_some(store.channel_ends[<<transfer, chan1>>])
  /\ store.channel_ends[<<transfer, chan0>>].val[1].connection_hops = <<conn1, conn0>>
  /\ store.channel_ends[<<transfer, chan1>>].val[1].connection_hops = <<conn0>>
  /\ resp.kind = "Ok"
  /\ Len(resp.body.channels) = 1
  /\ resp.body.channels[1].channel_id = chan1

\* the enumeration handlers that take every scanned key to be of one shape:
\* the prefix they scan, the shape they expect and the lookup they make
PrefixOf(request) ==
  IF request.handler = "connections" THEN str_connections
  ELSE IF request.handler = "channels"
    THEN str_channelEnds \o <<PATH_SEPARATOR>> \o str_ports
  ELSE str_clients \o <<PATH_SEPARATOR>> \o request.client_id
         \o <<PATH_SEPARATOR>> \o str_consensusStates

VariantOf(request) ==
  IF request.handler = "connections" THEN "Connections"
  ELSE IF request.handler = "channels" THEN "ChannelEnds"
  ELSE "ClientConsensusState"

LookupOf(st, request, path) ==
  IF request.handler = "connections"
    THEN get_connection_end(st, IbcPath_try_from(path))
  ELSE IF request.handler = "channels"
    THEN get_channel_end(st, IbcPath_try_from(path))
  ELSE get_consensus_state(st, IbcPath_try_from(path))

\* the scanned key is of the expected shape and its record is absent
AbsentRecord(st, request, path) ==
  Decodes(path, VariantOf(request)) /\ is_none(LookupOf(st, request, path))

\* the scanned key is of the expected shape and its record is read and there
Resolved(st, request, path) ==
  Decodes(path, VariantOf(request)) /\ is_some(LookupOf(st, request, path))

\* C5: in connections and channels, a path that the prefix scan returns and
\* whose direct lookup returns absent makes the query fail with a fault (the
\* handler panics); the answer is never a success response, be it an empty
\* list or a list without that record.
C5_AbsentRecordIsFault ==
  req.handler \in {"connections", "channels"} =>
     LET scanned == Scanned(store, PrefixOf(req))
     IN /\ (store.scan_ok /\ \E i \in 1..Len(scanned) : AbsentRecord(store, req, scanned[i]))
             => resp.kind # "Ok"
        /\ \A i \in 1..Len(scanned) :
              (/\ store.scan_ok
               /\ AbsentRecord(store, req, scanned[i])
               /\ \A j \in 1..(i - 1) : Resolved(store, req, scanned[j]))
                => (/\ resp.kind = "Panic"
                    /\ resp.ops[Len(resp.ops)].res = "None"
                    /\ resp.ops[Len(resp.ops)].key = scanned[i])

\* the scan of channels returns a channel end that is there and then a path
\* with no record behind it: the handler panics on the second lookup
C5_Witness ==
  /\ req.handler = "channels"
  /\ Len(store.paths) = 2
  /\ Resolved(store, req, store.paths[1])
  /\ AbsentRecord(store, req, store.paths[2])
  /\ resp.kind = "Panic"
  /\ Len(resp.ops) = 3

\* a scanned key of another shape than the handler expects
OtherShape(request, path) == ~Decodes(path, VariantOf(request))

\* the request of one of the three handlers passes the handler's own checks
\* and the scan succeeds
ScanDone(st, request) ==
  /\ request.handler \in {"connections", "channels", "consensus_states"}
  /\ Path_try_from_ok(PrefixOf(request))
  /\ st.scan_ok

StampedHandlers ==
  {"connections", "channels", "connection_channels", "packet_commitments",
   "packet_acknowledgements", "unreceived_packets", "unreceived_acks"}

DirectLookups == {"connection", "channel", "client_connections"}

\* C7: every successful response of connections, channels, connection_channels,
\* packet_commitments, packet_acknowledgements, unreceived_packets and
\* unreceived_acks carries the store's current height, and every response of
\* connection, channel and client_connections carries no height.
C7_HeightStamps ==
  /\ (req.handler \in StampedHandlers /\ resp.kind = "Ok") =>
        resp.body.height = <<[revision_number |-> CHAIN_REVISION_NUMBER,
                              revision_height |-> current_height(store)]>>
  /\ (req.handler \in DirectLookups /\ resp.kind = "Ok") =>
        resp.body.proof_height = <<>>

ReadingHandlers ==
  DirectLookups
  \cup {"connections", "channels", "connection_channels", "packet_commitments",
        "packet_acknowledgements", "client_states", "consensus_states"}

\* C8: in the direct lookups and the enumeration handlers, a store read that
\* returns an error makes the handler return an error response.
C8_ReadErrorSurfaces ==
  (req.handler \in ReadingHandlers
   /\ \E i \in 1..Len(resp.ops) : resp.ops[i].res = "Err")
     => resp.kind = "Err"

\* C9: connection and channel with valid identifiers answer an absent record
\* with a success response whose record field is empty, never with an error.
C9_AbsentIsNotAnError ==
  /\ (/\ req.handler = "connection"
      /\ ConnectionId_from_str(req.connection_id)
      /\ is_none(get_connection_end(store, [variant |-> "Connections",
                                             connection_id |-> req.connection_id])))
       => (resp.kind = "Ok" /\ resp.body.connection = <<>>)
  /\ (/\ req.handler = "channel"
      /\ ValidPortChannel(req)
      /\ is_none(get_channel_end(store, [variant |-> "ChannelEnds",
                                          port_id |-> req.port_id,
                                          channel_id |-> req.channel_id])))
       => (resp.kind = "Ok" /\ resp.body.channel = <<>>)

\* the store holds connection-0 and not connection-1, and connection-1 is
\* asked for
C9_Witness ==
  /\ req.handler = "connection" /\ req.connection_id = conn1
  /\ is_some(store.connection_ends[conn0])
  /\ is_none(store.connection_ends[conn1])
  /\ resp.kind = "Ok" /\ resp.body.connection = <<>>

\* the request carries an identifier that is no identifier of its kind
MalformedRequest(request) ==
  \/ (request.handler = "connection" /\ request.connection_id \in BadIds)
  \/ (request.handler = "client_connections" /\ request.client_id \in BadIds)
  \/ (request.handler = "connection_channels" /\ request.connection \in BadIds)
  \/ (/\ request.handler \in {"channel", "packet_commitments",
                              "packet_acknowledgements", "unreceived_packets",
                              "unreceived_acks"}
      /\ (request.port_id \in BadIds \/ request.channel_id \in BadIds))

\* C10: a malformed connection, client, port or channel id makes the handler
\* return an invalid-argument error before any store operation is invoked;
\* the error is never the data-loss or internal error of a failed store read.
C10_MalformedIdRejectedFirst ==
  MalformedRequest(req) =>
     /\ resp.kind = "Err"
     /\ resp.code = "InvalidArgument"
     /\ resp.code \notin {"DataLoss", "Internal"}
     /\ resp.ops = <<>>

\* a channel query with a malformed channel id over a store whose channel-end
\* reads fail
C10_Witness ==
  /\ req.handler = "channel"
  /\ req.port_id = transfer /\ req.channel_id \in BadIds
  /\ \A k \in ChannelKeys : ~store.channel_ends[k].ok
  /\ resp.kind = "Err" /\ resp.code = "InvalidArgument" /\ resp.ops = <<>>

\* the response of the service to a request over a store
Respond(st, request) ==
  IF request.handler = "client_states" THEN client_states(st, request)
  ELSE IF request.handler = "consensus_states" THEN consensus_states(st, request)
  ELSE IF request.handler = "connection" THEN connection(st, request)
  ELSE IF request.handler = "connections" THEN connections(st, request)
  ELSE IF request.handler = "client_connections" THEN client_connections(st, request)
  ELSE IF request.handler = "channel" THEN channel(st, request)
  ELSE IF request.handler = "channels" THEN channels(st, request)
  ELSE IF request.handler = "connection_channels" THEN connection_channels(st, request)
  ELSE IF request.handler = "packet_commitments" THEN packet_commitments(st, request)
  ELSE IF request.handler = "packet_acknowledgements"
    THEN packet_acknowledgements(st, request)
  ELSE IF request.handler = "unreceived_packets" THEN unreceived_packets(st, request)
  ELSE unreceived_acks(st, request)

FilteringHandlers ==
  {"client_states", "consensus_states", "connection_channels",
   "packet_commitments", "packet_acknowledgements"}

\* the prefix such a handler scans
FilterPrefix(request) ==
  IF request.handler = "client_states" THEN str_clients
  ELSE IF request.handler = "consensus_states"
    THEN Join(<<str_clients, request.client_id, str_consensusStates>>, PATH_SEPARATOR)
  ELSE IF request.handler = "connection_channels" THEN str_channelEnds
  ELSE IF request.handler = "packet_commitments"
    THEN Join(<<str_commitments, str_ports>>, PATH_SEPARATOR)
  ELSE Join(<<str_acks, str_ports>>, PATH_SEPARATOR)

\* the scanned key is one the handler looks up
Selected(request, path) ==
  IF request.handler = "client_states" THEN Decodes(path, "ClientState")
  ELSE IF request.handler = "consensus_states"
    THEN Decodes(path, "ClientConsensusState")
  ELSE IF request.handler = "connection_channels" THEN Decodes(path, "ChannelEnds")
  ELSE IF request.handler = "packet_commitments"
    THEN matching_paths("Commitments", request.port_id, request.channel_id, path)
  ELSE matching_paths("Acks", request.port_id, request.channel_id, path)

\* the lookup the handler makes for a selected key
FilterLookup(st, request, path) ==
  IF request.handler = "client_states"
    THEN get_client_state(st, IbcPath_try_from(path))
  ELSE IF request.handler = "consensus_states"
    THEN get_consensus_state(st, IbcPath_try_from(path))
  ELSE IF request.handler = "connection_channels"
    THEN get_channel_end(st, IbcPath_try_from(path))
  ELSE IF request.handler = "packet_commitments"
    THEN get_packet_commitment(st, IbcPath_try_from(path))
  ELSE get_acknowledgement_commitment(st, IbcPath_try_from(path))

\* C19: in client_states, consensus_states, connection_channels,
\* packet_commitments and packet_acknowledgements, a scanned path whose
\* lookup returns absent makes the query fail; the response is never a
\* success, with or without an entry for that path.
C19_AbsentRecordFaults ==
  (/\ req.handler \in FilteringHandlers
   /\ resp.code # "InvalidArgument"
   /\ store.scan_ok)
    => LET scanned == Scanned(store, FilterPrefix(req))
       IN (\E i \in 1..Len(scanned) :
              /\ Selected(req, scanned[i])
              /\ is_none(FilterLookup(store, req, scanned[i])))
            => resp.kind # "Ok"

\* out is what is left of in when all occurrences of some of its elements
\* are taken away
IsSelectionOf(out, in) ==
  \E K \in SUBSET Range(in) : out = SelectSeq(in, LAMBDA x : x \in K)

\* C20: a successful connections or channels response has one entry per
\* scanned path, in the order of the scan; a successful unreceived_packets or
\* unreceived_acks response is the request's list with all occurrences of
\* some sequences left out, in the request's order.
C20_ResultOrder ==
  /\ (req.handler = "connections" /\ resp.kind = "Ok") =>
        LET scanned == Scanned(store, str_connections)
        IN /\ Len(resp.body.connections) = Len(scanned)
           /\ \A i \in 1..Len(scanned) :
                 resp.body.connections[i].id
                   = IbcPath_try_from(scanned[i]).connection_id
  /\ (req.handler = "channels" /\ resp.kind = "Ok") =>
        LET scanned == Scanned(store, Join(<<str_channelEnds, str_ports>>, PATH_SEPARATOR))
        IN /\ Len(resp.body.channels) = Len(scanned)
           /\ \A i \in 1..Len(scanned) :
                 /\ resp.body.channels[i].port_id
                      = IbcPath_try_from(scanned[i]).port_id
                 /\ resp.body.channels[i].channel_id
                      = IbcPath_try_from(scanned[i]).channel_id
  /\ (req.handler = "unreceived_packets" /\ resp.kind = "Ok") =>
        IsSelectionOf(resp.body.sequences, req.packet_commitment_sequences)
  /\ (req.handler = "unreceived_acks" /\ resp.kind = "Ok") =>
        IsSelectionOf(resp.body.sequences, req.packet_ack_sequences)

\* the scan returns connection-1 before connection-0 and so does the response
C20_Witness ==
  /\ req.handler = "connections"
  /\ store.paths = <<connection_path(conn1), connection_path(conn0)>>
  /\ resp.kind = "Ok"
  /\ Len(resp.body.connections) = 2
  /\ resp.body.connections[1].id = conn1
  /\ resp.body.connections[2].id = conn0

(***************************************************************************)
(* The value types of src/types.rs on their own: Identifier, Path,         *)
(* KeyPrefix and the conversions from and to the typed paths.  A call of   *)
(* one of their functions is drawn at the start and then applied.          *)
(***************************************************************************)
\* the ASCII characters from the space (byte 32) to 'z' (byte 122), in byte
\* order; the quote, the backslash and the backtick are held by their names
Ascii ==
  <<" ", "!", "quote", "#", "$", "%", "&", "'", "(", ")", "*", "+", ",", "-", ".", "/",
    "0", "1", "2", "3", "4", "5", "6", "7", "8", "9", ":", ";", "<", "=", ">", "?",
    "@", "A", "B", "C", "D", "E", "F", "G", "H", "I", "J", "K", "L", "M", "N", "O",
    "P", "Q", "R", "S", "T", "U", "V", "W", "X", "Y", "Z", "[", "backslash", "]", "^", "_",
    "backtick", "a", "b", "c", "d", "e", "f", "g", "h", "i", "j", "k", "l", "m", "n", "o",
    "p", "q", "r", "s", "t", "u", "v", "w", "x", "y", "z">>

\* the byte of an ASCII character
ByteOf(c) == (CHOOSE i \in 1..Len(Ascii) : Ascii[i] = c) + 31

\* String::as_bytes
as_bytes(s) == [i \in 1..Len(s) |-> ByteOf(s[i])]

\* Ord for [u8] and for String: lexicographic over the bytes, a proper prefix
\* is less
bytes_cmp(a, b) ==
  LET differ == {i \in 1..Len(a) : i <= Len(b) /\ a[i] # b[i]}
  IN IF differ # {}
       THEN LET i == CHOOSE k \in differ : \A j \in differ : k <= j
            IN IF a[i] < b[i] THEN "Less" ELSE "Greater"
     ELSE IF Len(a) < Len(b) THEN "Less"
     ELSE IF Len(a) > Len(b) THEN "Greater"
     ELSE "Equal"

String_cmp(a, b) == bytes_cmp(as_bytes(a), as_bytes(b))

\* #[derive(PartialOrd, Ord)] on Identifier(String): the order of the string
Identifier_cmp(a, b) == String_cmp(a, b)

\* #[derive(PartialOrd, Ord)] on Path(Vec<Identifier>): lexicographic over
\* the identifiers, a proper prefix of the list is less
RECURSIVE Path_cmp(_, _)
Path_cmp(p, q) ==
  IF Len(p) = 0 /\ Len(q) = 0 THEN "Equal"
  ELSE IF Len(p) = 0 THEN "Less"
  ELSE IF Len(q) = 0 THEN "Greater"
  ELSE IF Identifier_cmp(p[1], q[1]) # "Equal" THEN Identifier_cmp(p[1], q[1])
  ELSE Path_cmp(Tail(p), Tail(q))

\* #[derive(PartialEq, Eq)] on Path: the same number of identifiers, equal
\* one by one
Path_eq(p, q) ==
  Len(p) = Len(q) /\ \A i \in 1..Len(p) : Identifier_cmp(p[i], q[i]) = "Equal"

\* Result<T, ServerError>
Ok_value(v) == [kind |-> "Ok", code |-> "None", value |-> v]

ValidateIdentifier(e) == [kind |-> "Err", code |-> "ValidateIdentifier", value |-> e]

\* TryFrom<String> for Identifier
Identifier_try_from(s) ==
  IF Identifier_validate(s) = "Ok" THEN Ok_value(s)
  ELSE ValidateIdentifier(Identifier_validate(s))

\* TryFrom<String> for Path: the parts are validated in turn and the first
\* failure is returned
RECURSIVE Path_try_from_parts(_, _)
Path_try_from_parts(parts, identifiers) ==
  IF Len(parts) = 0 THEN Ok_value(identifiers)
  ELSE LET id == Identifier_try_from(parts[1])
       IN IF id.kind = "Err" THEN id
          ELSE Path_try_from_parts(Tail(parts), Append(identifiers, id.value))

Path_try_from_string(s) == Path_try_from_parts(Split(s, PATH_SEPARATOR), <<>>)

\* From<&KeyPrefix> for String
String_from_KeyPrefix(key_prefix) == [i \in 1..Len(key_prefix) |-> key_prefix[i]]

\* AsRef<[u8]> for KeyPrefix
KeyPrefix_as_ref(key_prefix) == as_bytes(key_prefix)

\* From<IbcPath> for Path with its unwrap(): a string that is no Path panics
Path_from_unwrap(ibc_path) ==
  LET r == Path_try_from_string(IbcPath_to_string(ibc_path))
  IN IF r.kind = "Ok" THEN r
     ELSE [kind |-> "Panic", code |-> "unwrap", value |-> r.value]

\* the longest string drawn character by character
MaxLen == 3

\* characters of the drawn strings: a letter of each case, a digit, two of
\* the special characters that sort below '/', the separator, and a space
StringAlphabet == {"a", "Z", "7", "-", "#", "/", " "}

\* the strings of the tests of src/types.rs and some of their neighbours
str_clients_07_tend == <<"c", "l", "i", "e", "n", "t", "s", "/", "0", "7", "-", "t", "e", "n", "d">>

str_clients_07_tendermint_1033 == <<"c", "l", "i", "e", "n", "t", "s", "/", "0", "7", "-", "t", "e", "n", "d", "e", "r", "m", "i", "n", "t", "-", "1", "0", "3", "3">>

tendermint_1033 == <<"0", "7", "-", "t", "e", "n", "d", "e", "r", "m", "i", "n", "t", "-", "1", "0", "3", "3">>

tendermint_103344 == <<"0", "7", "-", "t", "e", "n", "d", "e", "r", "m", "i", "n", "t", "-", "1", "0", "3", "3", "4", "4">>

str_channelEnds_ports == Join(<<str_channelEnds, str_ports>>, PATH_SEPARATOR)

str_123client_id_consensusStates ==
  Join(<<str_clients, <<"1", "2", "3", "c", "l", "i", "e", "n", "t", "_", "i", "d">>, str_consensusStates>>, PATH_SEPARATOR)

str_all_special == <<"a", ".", "b", "_", "c", "+", "d", "-", "e", "#", "f", "[", "g", "]", "<", "h", ">">>

str_has_space == <<"h", "a", "s", " ", "s", "p", "a", "c", "e">>

\* an identifier longer than any of the id kinds of the ibc crate allows
str_long == [i \in 1..(Len(Ascii) + Len(Ascii)) |-> "a"]

SampleStrings ==
  {str_clients, str_connections, str_channelEnds_ports, str_clients_07_tend,
   str_clients_07_tendermint_1033, str_123client_id_consensusStates,
   str_all_special, str_has_space, client0, str_long,
   str_long \o <<PATH_SEPARATOR>> \o str_long,
   str_clients \o <<PATH_SEPARATOR>>, <<PATH_SEPARATOR>> \o str_clients,
   str_clients \o <<PATH_SEPARATOR, PATH_SEPARATOR>> \o client0}

Strings == SeqsUpTo(StringAlphabet, MaxLen) \cup SampleStrings

\* the typed paths: every variant of impl_into_path_for!
TypedNumbers == {0, 1, 10, 1033}

TypedClientIds == {client0, tendermint_1033, tendermint_103344}

TypedPaths ==
  {[variant |-> v, client_id |-> c] :
     v \in {"ClientType", "ClientState", "ClientConnections"}, c \in TypedClientIds}
  \cup {[variant |-> "ClientConsensusState", client_id |-> c, epoch |-> e, height |-> h] :
          c \in TypedClientIds, e \in TypedNumbers, h \in TypedNumbers}
  \cup {[variant |-> "Connections", connection_id |-> c] : c \in ConnIds}
  \cup {[variant |-> v, port_id |-> transfer, channel_id |-> c] :
          v \in {"ChannelEnds", "SeqSends", "SeqRecvs", "SeqAcks"}, c \in ChanIds}
  \cup {[variant |-> v, port_id |-> transfer, channel_id |-> c, sequence |-> n] :
          v \in {"Commitments", "Acks", "Receipts"}, c \in ChanIds, n \in TypedNumbers}

\* the Paths that can be constructed: from an accepted string and from a
\* typed path (a Path from a single Identifier is among the first)
PathsOf(strings) ==
  {Path_try_from_string(s).value : s \in {x \in strings : Path_try_from_string(x).kind = "Ok"}}

Paths == PathsOf(Strings) \cup {Path_from(d) : d \in TypedPaths}

\* the strings a Path is built from: the accepted ones of the drawn strings
\* and the string forms of the typed paths
AcceptedStrings ==
  {s \in Strings : Path_try_from_string(s).kind = "Ok"}
  \cup {IbcPath_to_string(d) : d \in TypedPaths}

\* the Paths compared with one another: all over a letter, a character
\* below '/' and the separator, and the paths of the tests
PairAlphabet == {"a", "-", "/"}

PairPaths ==
  PathsOf(SeqsUpTo(PairAlphabet, MaxLen))
  \cup PathsOf({str_clients, str_clients_07_tend, str_clients_07_tendermint_1033})
  \cup {Path_from([variant |-> v, client_id |-> c]) :
          v \in {"ClientType", "ClientState"},
          c \in {tendermint_1033, tendermint_103344}}

Calls ==
  {[handler |-> f, s |-> s] : f \in {"Identifier::try_from", "Path::try_from"}, s \in Strings}
  \cup {[handler |-> f, path |-> p] :
          f \in {"Path::to_string", "IbcPath::try_from"}, p \in Paths}
  \cup {[handler |-> "KeyPrefix::from", s |-> s, path |-> Path_try_from_string(s).value] :
          s \in AcceptedStrings}
  \cup {[handler |-> f, path |-> p, other |-> q] :
          f \in {"Path::cmp", "Path::starts_with"}, p \in PairPaths, q \in PairPaths}
  \cup {[handler |-> "Path::from", ibc_path |-> d] : d \in TypedPaths}

TypesInit ==
  /\ adapter = "types"
  /\ store = EmptyStore
  /\ req \in Calls
  /\ resp = NoResponse

\* the drawn call is made and its result kept
Apply(f, result) ==
  /\ req.handler = f
  /\ resp = NoResponse
  /\ resp' = result
  /\ UNCHANGED <<adapter, store, req>>

IdentifierTryFrom == Apply("Identifier::try_from", Identifier_try_from(req.s))

PathTryFrom == Apply("Path::try_from", Path_try_from_string(req.s))

PathToString == Apply("Path::to_string", Ok_value(Path_to_string(req.path)))

PathCmp ==
  Apply("Path::cmp", Ok_value([ord |-> Path_cmp(req.path, req.other),
                               eq |-> Path_eq(req.path, req.other)]))

PathStartsWith == Apply("Path::starts_with", Ok_value(starts_with(req.path, req.other)))

KeyPrefixFrom ==
  Apply("KeyPrefix::from",
        Ok_value([string |-> String_from_KeyPrefix(KeyPrefix_from(req.path)),
                  bytes |-> KeyPrefix_as_ref(KeyPrefix_from(req.path))]))

PathFromIbcPath == Apply("Path::from", Path_from_unwrap(req.ibc_path))

IbcPathTryFrom == Apply("IbcPath::try_from", Ok_value(IbcPath_try_from(req.path)))

TypesNext ==
  \/ IdentifierTryFrom
  \/ PathTryFrom
  \/ PathToString
  \/ PathCmp
  \/ PathStartsWith
  \/ KeyPrefixFrom
  \/ PathFromIbcPath
  \/ IbcPathTryFrom

TypesSpec == TypesInit /\ [][TypesNext]_vars

(***************************************************************************)
(* Properties of the value types                                           *)
(***************************************************************************)
\* C11: for every string s that Path::try_from accepts, to_string() of the
\* resulting Path is exactly s; and for every constructed Path p, parsing
\* p.to_string() succeeds and yields a Path equal to p.
C11_PathRoundTrip ==
  /\ (req.handler = "Path::try_from" /\ resp.kind = "Ok")
       => Path_to_string(resp.value) = req.s
  /\ (req.handler = "Path::to_string" /\ resp.kind = "Ok")
       => (/\ Path_try_from_string(resp.value).kind = "Ok"
           /\ Path_eq(Path_try_from_string(resp.value).value, req.path))

\* a string of three identifiers is parsed into a Path of three identifiers
C11_Witness ==
  /\ req.handler = "Path::try_from"
  /\ req.s = str_123client_id_consensusStates
  /\ resp.kind = "Ok"
  /\ Len(resp.value) = 3

\* C12: the derived order and equality of Path agree with the byte order and
\* equality of the serialized strings: p < q iff p.to_string() < q.to_string(),
\* and p == q iff the strings are equal, also for identifiers with the
\* characters '#', '+', '-', '.' that sort below '/'.
C12_OrderAgreesWithString ==
  (req.handler = "Path::cmp" /\ resp.kind = "Ok") =>
     /\ resp.value.ord = String_cmp(Path_to_string(req.path), Path_to_string(req.other))
     /\ resp.value.eq <=> (Path_to_string(req.path) = Path_to_string(req.other))

\* the bytes of prefix are the first bytes of bytes
IsBytePrefix(prefix, bytes) ==
  Len(prefix) <= Len(bytes) /\ \A i \in 1..Len(prefix) : bytes[i] = prefix[i]

\* C13: Path::starts_with(prefix) is true exactly when the bytes of self's
\* '/'-joined string begin with the bytes of prefix's '/'-joined string; the
\* prefix need not end where an identifier of self ends.
C13_StartsWithBytePrefix ==
  (req.handler = "Path::starts_with" /\ resp.kind = "Ok") =>
     (resp.value <=> IsBytePrefix(as_bytes(Path_to_string(req.other)),
                                  as_bytes(Path_to_string(req.path))))

\* clients/07-tend is a prefix of clients/07-tendermint-1033/clientState
C13_Witness ==
  /\ req.handler = "Path::starts_with"
  /\ req.path = <<str_clients, tendermint_1033, str_clientState>>
  /\ Path_to_string(req.other) = str_clients_07_tend
  /\ resp.kind = "Ok" /\ resp.value = TRUE

\* the characters an identifier may hold
AllowedCharacters == Letters \cup DigitSet \cup {".", "_", "+", "-", "#", "[", "]", "<", ">"}

\* C14: Identifier::try_from(s) succeeds exactly when s is non-empty and all
\* of its characters are alphanumeric or one of . _ + - # [ ] < >; no length
\* is too long; on success the Identifier holds exactly s.
C14_IdentifierValidation ==
  req.handler = "Identifier::try_from" /\ resp # NoResponse =>
     /\ resp.kind = "Ok" <=>
          (Len(req.s) > 0 /\ \A i \in 1..Len(req.s) : req.s[i] \in AllowedCharacters)
     /\ resp.kind = "Ok" => resp.value = req.s
     /\ resp.kind # "Ok" => (resp.kind = "Err" /\ resp.code = "ValidateIdentifier")

\* an identifier longer than the 128 characters of the longest id kind is
\* accepted
C14_Witness ==
  /\ req.handler = "Identifier::try_from"
  /\ req.s = str_long
  /\ Len(req.s) > Len(str_all_special) * Len(chan0)
  /\ resp.kind = "Ok" /\ resp.value = str_long

\* s is empty, starts or ends with a slash, has two slashes in a row, or
\* holds a character no identifier may hold
HasBadSegment(s) ==
  \/ Len(s) = 0
  \/ s[1] = PATH_SEPARATOR
  \/ s[Len(s)] = PATH_SEPARATOR
  \/ \E i \in 1..(Len(s) - 1) : s[i] = PATH_SEPARATOR /\ s[i + 1] = PATH_SEPARATOR
  \/ \E i \in 1..Len(s) : s[i] # PATH_SEPARATOR /\ s[i] \notin AllowedCharacters

\* C15: Path::try_from(s) fails with the identifier-validation error when s is
\* empty, has a leading, trailing or double slash, or has an invalid segment;
\* every Path it returns has at least one segment and all its segments are
\* valid non-empty identifiers.
C15_PathRejectsEmptySegments ==
  req.handler = "Path::try_from" /\ resp # NoResponse =>
     /\ HasBadSegment(req.s) => (resp.kind = "Err" /\ resp.code = "ValidateIdentifier")
     /\ resp.kind = "Ok" =>
          (/\ Len(resp.value) >= 1
           /\ \A i \in 1..Len(resp.value) :
                 /\ Len(resp.value[i]) > 0
                 /\ \A j \in 1..Len(resp.value[i]) : resp.value[i][j] \in AllowedCharacters)

\* clients//07-tendermint-0 is rejected for its empty segment
C15_Witness ==
  /\ req.handler = "Path::try_from"
  /\ req.s = str_clients \o <<PATH_SEPARATOR, PATH_SEPARATOR>> \o client0
  /\ resp.kind = "Err" /\ resp.code = "ValidateIdentifier" /\ resp.value = "Empty"

\* C16: for every string s that parses into a Path p, the String of
\* KeyPrefix::from(&p) is s, and the bytes KeyPrefix::as_ref() exposes are
\* the bytes of p.to_string().
C16_KeyPrefixIdentity ==
  (req.handler = "KeyPrefix::from" /\ resp.kind = "Ok") =>
     /\ resp.value.string = req.s
     /\ resp.value.bytes = as_bytes(Path_to_string(req.path))

\* the prefix clients/123client_id/consensusStates of the third test
C16_Witness ==
  /\ req.handler = "KeyPrefix::from"
  /\ req.s = str_123client_id_consensusStates
  /\ Len(req.path) = 3
  /\ resp.kind = "Ok" /\ resp.value.string = req.s

\* two typed paths are the same variant with the same fields
SameTypedPath(a, b) == a.variant = b.variant /\ a = b

\* C17: for every typed path d of every variant, the conversion to a Path
\* does not fail, and converting that Path back yields the same variant with
\* the same identifiers, sequence number, epoch and height.
C17_TypedRoundTrip ==
  req.handler = "Path::from" /\ resp # NoResponse =>
     /\ resp.kind = "Ok"
     /\ SameTypedPath(IbcPath_try_from(resp.value), req.ibc_path)

\* a consensus state path with an epoch and a height of several digits
C17_Witness ==
  /\ req.handler = "Path::from"
  /\ req.ibc_path.variant = "ClientConsensusState"
  /\ req.ibc_path.epoch = 10 /\ req.ibc_path.height = 1033
  /\ resp.kind = "Ok" /\ Len(resp.value) = 4

(***************************************************************************)
(* The stamped handlers call by call (src/service.rs): the prefix scan,    *)
(* each lookup at StoreHeight::Latest and current_height() are separate    *)
(* calls on the shared store, and the store's owner may commit a block     *)
(* between any two of them                                                 *)
(***************************************************************************)
SteppedAdapters == {"channel_end", "packet"}

SteppedInit ==
  /\ adapter \in SteppedAdapters
  /\ store = EmptyStore
  /\ req = NoRequest
  /\ resp = NoResponse

\* a committed block, between two calls of a query or between two queries
Block(a, field, value, paths) ==
  /\ adapter = a
  /\ IF req.handler = "none" THEN TRUE ELSE req.pc = "running"
  /\ store.height < MaxHeight
  /\ store' = [store EXCEPT ![field] = value, !.paths = paths, !.height = @ + 1]
  /\ UNCHANGED <<adapter, req, resp>>

BlockPutChannelEnd ==
  \E k \in ChannelKeys, r \in Written(ChannelEnds) :
     Block("channel_end", "channel_ends", [store.channel_ends EXCEPT ![k] = r],
           Indexed(store.paths, channel_end_path(k)))

BlockDeleteChannelEnd ==
  \E k \in ChannelKeys :
     Block("channel_end", "channel_ends", [store.channel_ends EXCEPT ![k] = None],
           Unindexed(store.paths, channel_end_path(k)))

BlockPutReceipt ==
  \E k \in PacketKeys, r \in Written({<<>>}) :
     Block("packet", "receipts", [store.receipts EXCEPT ![k] = r], store.paths)

\* the handler is between two store calls: todo is what its loop has left,
\* acc what it has collected, read_at the store height of each call so far
Running(request, todo, acc, ops, read_at) ==
  /\ req' = [handler |-> request.handler, request |-> request, pc |-> "running",
             todo |-> todo, acc |-> acc, ops |-> ops, read_at |-> read_at]
  /\ resp' = NoResponse

\* the handler returns
Finished(request, response, read_at) ==
  /\ req' = [handler |-> request.handler, request |-> request, pc |-> "done",
             todo |-> <<>>, acc |-> <<>>, ops |-> response.ops, read_at |-> read_at]
  /\ resp' = response

\* channels: the prefix scan
ChannelsScan ==
  /\ adapter = "channel_end"
  /\ req.handler = "none"
  /\ LET request == [handler |-> "channels"]
         channel_path_prefix ==
           Path_try_from(str_channelEnds \o <<PATH_SEPARATOR>> \o str_ports)
         channel_paths == get_paths_by_prefix(store, channel_path_prefix)
         ops == <<Call("get_paths_by_prefix", channel_path_prefix,
                       TagVec(channel_paths))>>
     IN IF ~channel_paths.ok
          THEN Finished(request, Status("Internal", ops), <<store.height>>)
        ELSE Running(request, channel_paths.val, <<>>, ops, <<store.height>>)
  /\ UNCHANGED <<adapter, store>>

\* channels: one turn of the loop over the scanned paths
ChannelsLookup ==
  /\ req.handler = "channels"
  /\ req.pc = "running"
  /\ Len(req.todo) > 0
  /\ LET path == IbcPath_try_from(req.todo[1])
     IN IF path.variant # "ChannelEnds"
          THEN Finished(req.request, Panic("unexpected path", req.ops), req.read_at)
        ELSE LET channel_end == get_channel_end(store, path)
                 ops1 == Append(req.ops, Call("get_channel_end", req.todo[1],
                                              Tag(channel_end)))
                 read_at1 == Append(req.read_at, store.height)
             IN IF ~channel_end.ok
                  THEN Finished(req.request, Status("DataLoss", ops1), read_at1)
                ELSE IF is_none(channel_end)
                  THEN Finished(req.request,
                         Panic("channel path returned by get_keys() had no associated channel",
                               ops1),
                         read_at1)
                ELSE Running(req.request, Tail(req.todo),
                             Append(req.acc,
                                    IdentifiedChannelEnd(path.port_id, path.channel_id,
                                                         channel_end.val[1])),
                             ops1, read_at1)
  /\ UNCHANGED <<adapter, store>>

\* channels: the response is built, with current_height() as its stamp
ChannelsStamp ==
  /\ req.handler = "channels"
  /\ req.pc = "running"
  /\ Len(req.todo) = 0
  /\ Finished(req.request,
              Ok([channels |-> req.acc, pagination |-> <<>>,
                  height |-> HeightStamp(store)], Append(req.ops, HeightCall)),
              req.read_at)
  /\ UNCHANGED <<adapter, store>>

\* unreceived_packets: the identifiers are validated, no store call yet
UnreceivedPacketsValidate ==
  /\ adapter = "packet"
  /\ req.handler = "none"
  /\ \E pc \in PortChannelPairs :
       \E seqs \in SequenceLists(pc) :
          LET request == [handler |-> "unreceived_packets", port_id |-> pc[1],
                          channel_id |-> pc[2],
                          packet_commitment_sequences |-> seqs]
          IN IF ~PortId_from_str(request.port_id)
               THEN Finished(request, Status("InvalidArgument", <<>>), <<>>)
             ELSE IF ~ChannelId_from_str(request.channel_id)
               THEN Finished(request, Status("InvalidArgument", <<>>), <<>>)
             ELSE Running(request, request.packet_commitment_sequences, <<>>, <<>>,
                          <<>>)
  /\ UNCHANGED <<adapter, store>>

\* unreceived_packets: the filter tests one sequence
UnreceivedPacketsFilter ==
  /\ req.handler = "unreceived_packets"
  /\ req.pc = "running"
  /\ Len(req.todo) > 0
  /\ LET seq == req.todo[1]
         receipts_path == ReceiptsPath(req.request.port_id, req.request.channel_id, seq)
     IN Running(req.request, Tail(req.todo),
                IF receipt_is_none(store, req.request.port_id,
                                   req.request.channel_id, seq)
                  THEN Append(req.acc, seq) ELSE req.acc,
                Append(req.ops, Call("get_opt", Path_from(receipts_path),
                                     Tag(get_opt(store, receipts_path)))),
                Append(req.read_at, store.height))
  /\ UNCHANGED <<adapter, store>>

\* unreceived_packets: the response is built, with current_height() as its stamp
UnreceivedPacketsStamp ==
  /\ req.handler = "unreceived_packets"
  /\ req.pc = "running"
  /\ Len(req.todo) = 0
  /\ Finished(req.request,
              Ok([sequences |-> req.acc, height |-> HeightStamp(store)],
                 Append(req.ops, HeightCall)),
              req.read_at)
  /\ UNCHANGED <<adapter, store>>

\* the response is sent; the service keeps nothing of the call
SteppedReturn ==
  /\ req.handler # "none"
  /\ req.pc = "done"
  /\ req' = NoRequest
  /\ resp' = NoResponse
  /\ UNCHANGED <<adapter, store>>

SteppedNext ==
  \/ BlockPutChannelEnd
  \/ BlockDeleteChannelEnd
  \/ BlockPutReceipt
  \/ ChannelsScan
  \/ ChannelsLookup
  \/ ChannelsStamp
  \/ UnreceivedPacketsValidate
  \/ UnreceivedPacketsFilter
  \/ UnreceivedPacketsStamp
  \/ SteppedReturn

SteppedSpec == SteppedInit /\ [][SteppedNext]_vars

(***************************************************************************)
(* Properties of the handlers call by call                                 *)
(***************************************************************************)
\* the height stamped on a finished query's response
StampOf(response) == response.body.height[1].revision_height

\* a query whose calls all ran at one store height returns what the handler
\* returns over the store at that height
SteppedAgreesWithHandler ==
  (/\ req.handler # "none"
   /\ req.pc = "done"
   /\ \A i \in 1..Len(req.read_at) : req.read_at[i] = store.height)
    => resp = Respond(store, req.request)

\* C21: snapshot consistency of the height stamp: when blocks are committed
\* while a channels or unreceived_packets query is in progress, the list of
\* the finished response is exactly the query's result over the store state
\* at the stamped height, the height at which the scan and every lookup of
\* the query ran.
C21_SnapshotHeightStamp ==
  (/\ req.handler \in {"channels", "unreceived_packets"}
   /\ req.pc = "done"
   /\ resp.kind = "Ok"
   /\ store.height = StampOf(resp))
    => /\ resp.body = Respond(store, req.request).body
       /\ \A i \in 1..Len(req.read_at) : req.read_at[i] = StampOf(resp)

====
